---- MODULE Spec2Model ----
(***************************************************************************)
(* State-machine model of scrapers/MeanBitches/MeanBitches.py: the scene   *)
(* resolver (_resolve_scene_fragment), the full-page scrape                *)
(* (scrapeSceneURL), the search client (search_scenes_by_name / _search)   *)
(* and the module-level dispatch.                                          *)
(*                                                                         *)
(* Strings are sequences of characters (one-character strings); a URL is a *)
(* sequence of its parts (scheme, host, path, ...), so that prefix and     *)
(* substring tests are computed the way the code computes them.            *)
(* The remote site is an unknown but fixed environment: the answer to a    *)
(* fetch is chosen the first time the program asks and remembered.         *)
(***************************************************************************)
EXTENDS Integers, Sequences, FiniteSets, TLC

VARIABLES
    operation,      \* sys.argv[1]
    input_data,     \* the JSON document read from stdin
    pc,             \* position of the single thread of control
    name,           \* the module-level global `name` (NameUndefined until line 616 runs)
    urls_to_try,    \* _resolve_scene_fragment: candidate list
    idx,            \* _resolve_scene_fragment: position of `for url in urls_to_try`
    title,          \* _resolve_scene_fragment: the search title
    search_results, \* _resolve_scene_fragment: result of the title search
    scrape,         \* frame of the latest scrapeSceneURL call: url, caller, page, result
    search,         \* frame of the latest search_scenes_by_name call
    output,         \* what the operation returned (printed) or raised
    cache,          \* cache_to_disk store of scrapeSceneURL: url -> record
    log,            \* history: calls of scrapeSceneURL / search_scenes_by_name, network fetches
    run,            \* number of the invocation (the cache outlives an invocation)
    first_output,   \* output of the first invocation
    site_pages,     \* environment: page served for each URL (lazily fixed)
    site_search,    \* environment: listing served for each (query, page) (lazily fixed)
    tool            \* performer-image-scraper.py: position, GraphQL calls, stdout, exit

vars == <<operation, input_data, pc, name, urls_to_try, idx, title, search_results,
          scrape, search, output, cache, log, run, first_output,
          site_pages, site_search, tool>>

----------------------------------------------------------------------------
(* Values *)

\* Python None, and a key absent from a dict (dict.get gives None).
Null == <<"null">>

\* The global `name` before any assignment: reading it raises NameError.
NameUndefined == <<"undefined">>

\* Python truthiness of an optional string.
Truthy(v) == v # Null /\ v # <<>>

\* The "urls" key absent from the fragment (or not holding a list).
NoList == <<Null>>

\* str.lower
LowerChar(c) == IF c = "A" THEN "a" ELSE IF c = "B" THEN "b" ELSE c

Lower(s) == [i \in 1..Len(s) |-> LowerChar(s[i])]

\* str.strip: leading and trailing whitespace removed
RECURSIVE LStrip(_)
LStrip(s) == IF s # <<>> /\ s[1] = " " THEN LStrip(Tail(s)) ELSE s

RECURSIVE RStrip(_)
RStrip(s) ==
    IF s # <<>> /\ s[Len(s)] = " " THEN RStrip(SubSeq(s, 1, Len(s) - 1)) ELSE s

Strip(s) == RStrip(LStrip(s))

\* html.unescape: a character reference is replaced by its character
UnescapeChar(c) == IF c = "&#97;" THEN "a" ELSE IF c = "&#98;" THEN "b" ELSE c

Unescape(s) == [i \in 1..Len(s) |-> UnescapeChar(s[i])]

\* str.startswith("http"): the scheme part begins with the letters http
StartsWithHttp(url) == url # <<>> /\ url[1] \in {"http://", "https://"}

\* "megasite.meanworld.com" in url: the text occurs anywhere in the URL
ContainsMegasite(url) == \E i \in 1..Len(url) : url[i] = "megasite.meanworld.com"

----------------------------------------------------------------------------
(* extract_title_from_filename *)

RECURSIVE SplitSlash(_)
SplitSlash(s) ==
    IF \E i \in 1..Len(s) : s[i] = "/"
    THEN LET i == CHOOSE k \in 1..Len(s) :
                      s[k] = "/" /\ \A j \in 1..(k - 1) : s[j] # "/"
         IN <<SubSeq(s, 1, i - 1)>> \o SplitSlash(SubSeq(s, i + 1, Len(s)))
    ELSE <<s>>

\* pathlib: empty and "." components are dropped; name is the last one left
PathIsPart(c) == c # <<>> /\ c # <<".">>

PathName(s) ==
    LET parts == SelectSeq(SplitSlash(s), PathIsPart)
    IN IF parts = <<>> THEN <<>> ELSE parts[Len(parts)]

\* pathlib stem: cut at the last dot unless it is the first or the last character
PathStem(s) ==
    LET nm == PathName(s)
        dots == {i \in 1..Len(nm) : nm[i] = "."}
        i == IF dots = {} THEN 0 ELSE CHOOSE k \in dots : \A j \in dots : j <= k
    IN IF 1 < i /\ i < Len(nm) THEN SubSeq(nm, 1, i - 1) ELSE nm

extract_title_from_filename(filename) ==
    IF ~Truthy(filename) THEN Null
    ELSE IF Strip(filename) = <<>> THEN Null
    ELSE IF PathStem(Strip(filename)) = <<>> THEN Null
    ELSE PathStem(Strip(filename))

----------------------------------------------------------------------------
(* difflib.SequenceMatcher(None, a, b).ratio() *)

RECURSIVE RunLength(_, _, _, _, _, _)
RunLength(a, i, ahi, b, j, bhi) ==
    IF i <= ahi /\ j <= bhi /\ a[i] = b[j]
    THEN 1 + RunLength(a, i + 1, ahi, b, j + 1, bhi)
    ELSE 0

\* find_longest_match: the longest common block of a[alo..ahi] and b[blo..bhi];
\* among the longest the one starting earliest in a, then earliest in b
LongestMatch(a, alo, ahi, b, blo, bhi) ==
    LET blocks == {<<i, j>> : i \in alo..ahi, j \in blo..bhi}
        size(t) == RunLength(a, t[1], ahi, b, t[2], bhi)
        better(t, u) == \/ size(t) > size(u)
                        \/ size(t) = size(u) /\ t[1] < u[1]
                        \/ size(t) = size(u) /\ t[1] = u[1] /\ t[2] <= u[2]
        best == CHOOSE t \in blocks : \A u \in blocks : better(t, u)
    IN IF blocks = {} THEN [i |-> alo, j |-> blo, k |-> 0]
       ELSE [i |-> best[1], j |-> best[2], k |-> size(best)]

\* get_matching_blocks: total size of the blocks found left and right of the longest
RECURSIVE MatchCount(_, _, _, _, _, _)
MatchCount(a, alo, ahi, b, blo, bhi) ==
    LET m == LongestMatch(a, alo, ahi, b, blo, bhi)
    IN IF m.k = 0 THEN 0
       ELSE m.k + MatchCount(a, alo, m.i - 1, b, blo, m.j - 1)
                + MatchCount(a, m.i + m.k, ahi, b, m.j + m.k, bhi)

\* ratio() = 2.0 * matches / (len(a) + len(b)), 1.0 for two empty strings,
\* kept as the fraction <<numerator, denominator>>
Ratio(a, b) ==
    IF Len(a) + Len(b) = 0 THEN <<1, 1>>
    ELSE <<2 * MatchCount(a, 1, Len(a), b, 1, Len(b)), Len(a) + Len(b)>>

\* r1 > r2 for two fractions with positive denominators
RatioGreater(r1, r2) == r1[1] * r2[2] > r2[1] * r1[2]

----------------------------------------------------------------------------
(* Program constants *)

BASE_URL == <<"https://", "megasite.meanworld.com">>

MAX_SEARCH_PAGES == 5

DEFAULT_DIRECTOR == "Glenn King"

\* a variant of max_pages: one page more than MAX_SEARCH_PAGES
max_pages_one_more == MAX_SEARCH_PAGES + 1

\* max_pages = 5 in search_scenes_by_name
max_pages == 5

----------------------------------------------------------------------------
(* Inputs and environment: the small sets the model draws from *)

\* longest fragment.urls list drawn
MaxUrls == 2

SceneUrl1 == <<"https://", "megasite.meanworld.com", "/scenes/1_vids.html">>

SceneUrl2 == <<"https://", "megasite.meanworld.com", "/scenes/2_vids.html">>

\* another host, nothing else in the URL
OtherHostUrl == <<"https://", "www.meanbitches.com", "/scenes/1_vids.html">>

\* another host, the megasite's name in the query string
OtherHostMention ==
    <<"https://", "www.meanbitches.com", "/out.php?to=", "megasite.meanworld.com">>

\* the megasite, but not over http
NotHttpUrl == <<"ftp://", "megasite.meanworld.com", "/scenes/1_vids.html">>

UrlUniverse == {SceneUrl1, SceneUrl2, OtherHostUrl, OtherHostMention, NotHttpUrl}

\* the entries drawn for fragment.urls, and the values drawn for fragment.url
ListedUrls == {SceneUrl1, SceneUrl2, OtherHostMention}

MainUrls == {SceneUrl2, OtherHostUrl, NotHttpUrl}

RECURSIVE SeqsUpTo(_, _)
SeqsUpTo(S, n) ==
    IF n = 0 THEN {<<>>}
    ELSE LET shorter == SeqsUpTo(S, n - 1)
         IN shorter \cup {Append(q, x) : q \in shorter, x \in S}

FragmentTitles == {Null, <<"a">>, <<" ", "a">>}

FileNames == {Null, <<"/", "d", "/", "b", ".", "m">>, <<" ", "/">>}

\* the JSON documents of the resolver operations
Fragments ==
    [urls : {NoList} \cup SeqsUpTo(ListedUrls, MaxUrls),
     url : {Null} \cup MainUrls,
     title : FragmentTitles,
     file_name : FileNames,
     name : {Null}]

\* the JSON documents of scrapeSceneURL / scrapeGalleryURL
UrlInputs ==
    [urls : {NoList}, url : UrlUniverse, title : {Null}, file_name : {Null}, name : {Null}]

SearchNames == {<<>>, <<"a">>, <<" ", "A">>, <<"b">>, <<"a", "b">>}

\* the JSON documents of searchScenes
NameInputs ==
    [urls : {NoList}, url : {Null}, title : {Null}, file_name : {Null}, name : SearchNames]

\* Image references found in pages
ThumbsDir == "/meanbitches/content/contentthumbs/"

ThumbsDir4x == "/content//contentthumbs/"

OgImage1x == BASE_URL \o <<ThumbsDir, "11", "-1x.jpg">>

OgImageBare == BASE_URL \o <<ThumbsDir>>

PreviewThumb == <<"/content/preview.jpg">>

ScriptThumb == <<"/content/movie.jpg">>

ListingThumb == <<"/content/listing.jpg">>

\* references that are relative: a root-relative og:image, and paths without
\* a leading "/"
OgImageRelative == <<ThumbsDir, "11", "-1x.jpg">>

PreviewThumbRelative == <<"content/preview.jpg">>

ScriptThumbRelative == <<"content/movie.jpg">>

ListingThumbRelative == <<"content/listing.jpg">>

\* the parts that begin with "/"
SlashParts ==
    {ThumbsDir, ThumbsDir4x, "/content/preview.jpg", "/content/movie.jpg",
     "/content/listing.jpg", "/scenes/1_vids.html", "/scenes/2_vids.html",
     "/out.php?to="}

\* A fetched page, as far as the extractors read it:
\*   title   data-title of the packageinfo div       (Null: no such div)
\*   og      content of the og:image meta tag         (Null: no such tag)
\*   thumb   src of the dvd_preview_thumb img         (Null: no such img)
\*   script  the thumbnail: "....jpg" of a script     (Null: no match)
Page(t, og, th, sc) ==
    [status |-> "ok", title |-> t, og |-> og, thumb |-> th, script |-> sc]

ErrorPage == [status |-> "error", title |-> Null, og |-> Null, thumb |-> Null, script |-> Null]

UnknownPage ==
    [status |-> "unknown", title |-> Null, og |-> Null, thumb |-> Null, script |-> Null]

SitePageChoices ==
    {ErrorPage,
     Page(Null, Null, Null, Null),
     Page(<<"a">>, OgImage1x, PreviewThumb, ScriptThumb),
     Page(<<"a">>, OgImageBare, PreviewThumb, Null),
     Page(<<"&#97;">>, Null, Null, ScriptThumb)}

\* pages whose image references are relative, and a page with a script
\* thumbnail but no title
RelativeImagePages ==
    {Page(<<"a">>, OgImageRelative, PreviewThumb, Null),
     Page(<<"a">>, Null, PreviewThumbRelative, ScriptThumb),
     Page(Null, Null, Null, ScriptThumbRelative)}

ScrapePageChoices == SitePageChoices \cup RelativeImagePages

\* the pages drawn for an operation: the resolver operations are explored with
\* SitePageChoices, the scrape operations with the relative references as well
PageChoicesFor(op) ==
    IF op \in {"scrapeSceneURL", "scrapeGalleryURL"}
    THEN ScrapePageChoices
    ELSE SitePageChoices

\* A listing container of a search page: the text and href of its scene link
\* and the src of its update_thumb img (Null: none)
Container(text, href, img) == [text |-> text, href |-> href, img |-> img]

ContainerA == Container(<<"A">>, SceneUrl1, ListingThumb)

ContainerB == Container(<<"b">>, SceneUrl2, Null)

ContainerEntity == Container(<<"&#97;">>, SceneUrl2, Null)

ContainerNoText == Container(<<>>, SceneUrl1, ListingThumb)

\* One answer of the search endpoint: an HTTP error, or a page of containers
Listing(cs) == [status |-> "ok", containers |-> cs]

ErrorListing == [status |-> "error", containers |-> <<>>]

SearchPageChoices ==
    {ErrorListing,
     Listing(<<>>),
     Listing(<<ContainerB>>),
     Listing(<<ContainerB, ContainerA>>),
     Listing(<<ContainerNoText, ContainerB, ContainerEntity>>)}

\* a container whose thumbnail is a path without a leading "/"
ContainerRelative == Container(<<"a">>, SceneUrl1, ListingThumbRelative)

\* listings whose first result has an image
ImageListings == {Listing(<<ContainerA, ContainerB>>), Listing(<<ContainerRelative>>)}

ImageSearchPageChoices == SearchPageChoices \cup ImageListings

\* the listings drawn for an operation: the scrape operations are explored
\* with ImageListings as well, the others with SearchPageChoices
ListingChoicesFor(op) ==
    IF op \in {"scrapeSceneURL", "scrapeGalleryURL"}
    THEN ImageSearchPageChoices
    ELSE SearchPageChoices

----------------------------------------------------------------------------
(* Field extractors *)

\* str.startswith('/')
StartsWithSlash(url) == url # <<>> /\ url[1] \in SlashParts

normalize_url(url) ==
    IF ~Truthy(url) THEN Null
    ELSE IF StartsWithSlash(Strip(url)) THEN BASE_URL \o Strip(url)
    ELSE IF Strip(url) = <<>> THEN Null
    ELSE Strip(url)

\* `normalize_url(x) or x`
NormalizedOr(url) == IF Truthy(normalize_url(url)) THEN normalize_url(url) ELSE url

extract_title(page) == IF Truthy(page.title) THEN Unescape(page.title) ELSE Null

\* re.sub(r'/meanbitches/content/contentthumbs/(.*)-[1234]x\.jpg$', r'/content//contentthumbs/\1-4x.jpg', url)
UpgradeTo4x(url) ==
    LET at == {i \in 1..Len(url) : url[i] = ThumbsDir}
        i == CHOOSE k \in at : \A j \in at : k <= j
    IN IF at # {} /\ i < Len(url)
          /\ url[Len(url)] \in {"-1x.jpg", "-2x.jpg", "-3x.jpg", "-4x.jpg"}
       THEN [k \in 1..Len(url) |->
                IF k = i THEN ThumbsDir4x
                ELSE IF k = Len(url) THEN "-4x.jpg" ELSE url[k]]
       ELSE url

EndsWithContentThumbs(url) == url # <<>> /\ url[Len(url)] \in {ThumbsDir, ThumbsDir4x}

\* extract_image, strategy 1: the og:image meta tag
ImageFromOg(page) ==
    IF page.og = Null THEN Null
    ELSE IF Strip(page.og) # <<>> /\ ~EndsWithContentThumbs(Strip(page.og))
         THEN UpgradeTo4x(Strip(page.og))
         ELSE Null

\* extract_image, strategy 2: the dvd_preview_thumb img
ImageFromPreview(page) ==
    IF page.thumb = Null THEN Null
    ELSE IF Strip(page.thumb) # <<>> THEN NormalizedOr(Strip(page.thumb))
    ELSE Null

\* extract_image, strategy 3: the image of the first search result
ImageFromSearch(results) ==
    IF results # <<>> /\ Truthy(results[1].image) THEN results[1].image ELSE Null

\* extract_image, strategy 4: the thumbnail of a script
ImageFromScript(page) ==
    IF page.script = Null THEN Null
    ELSE IF Strip(page.script) # <<>> THEN NormalizedOr(Strip(page.script))
    ELSE Null

\* a variant of ImageBeforeSearch: the preview thumbnail before og:image
ImageBeforeSearchPreviewFirst(page) ==
    IF Truthy(ImageFromPreview(page)) THEN ImageFromPreview(page) ELSE ImageFromOg(page)

\* extract_image before the search: strategies 1 and 2
ImageBeforeSearch(page) ==
    IF Truthy(ImageFromOg(page)) THEN ImageFromOg(page) ELSE ImageFromPreview(page)

\* extract_image from the search on: strategies 3 and 4
ImageAfterSearch(page, results) ==
    IF Truthy(ImageFromSearch(results)) THEN ImageFromSearch(results)
    ELSE ImageFromScript(page)

\* scrapeSceneURL: the record assembled from a fetched page
SceneRecord(url, page, image) ==
    [url |-> url,
     title |-> extract_title(page),
     studio |-> [url |-> "https://www.meanbitches.com/"],
     image |-> IF Truthy(image) THEN image ELSE Null,
     director |-> DEFAULT_DIRECTOR,
     photographer |-> Null]

\* scrapeGalleryURL: director replaced by photographer
GalleryRecord(ret) == [ret EXCEPT !.director = Null, !.photographer = DEFAULT_DIRECTOR]

----------------------------------------------------------------------------
(* Search client *)

\* extract_search_result_data
extract_search_result_data(container) ==
    [title |-> Unescape(Strip(container.text)),
     url |-> container.href,
     image |-> IF Truthy(container.img) THEN NormalizedOr(Strip(container.img)) ELSE Null]

\* _fetch_and_parse_search_page: containers without a scene link with text are skipped
HasSceneLink(container) == container.href # <<>> /\ container.text # <<>>

page_results(listing) ==
    LET kept == SelectSeq(listing.containers, HasSceneLink)
    IN [i \in 1..Len(kept) |-> extract_search_result_data(kept[i])]

\* a variant of has_exact_match: the comparison without .lower()
has_exact_match_case_sensitive(listing, search_name) ==
    \E i \in 1..Len(listing.containers) :
        /\ HasSceneLink(listing.containers[i])
        /\ Unescape(listing.containers[i].text) = search_name

\* _fetch_and_parse_search_page: the exact-match flag of one page
has_exact_match(listing, search_name) ==
    \E i \in 1..Len(listing.containers) :
        /\ HasSceneLink(listing.containers[i])
        /\ Lower(Unescape(listing.containers[i].text)) = Lower(search_name)

\* _relevance_score with the global `name` as the query
relevance_score(scene, query) == Ratio(Lower(query), Lower(scene.title))

\* list.sort(key=_relevance_score, reverse=True): stable, descending. The place
\* of results[i] is after every element of greater score and after the earlier
\* elements of equal score
SortedPlace(keys, i) ==
    1 + Cardinality({j \in DOMAIN keys :
            \/ RatioGreater(keys[j], keys[i])
            \/ j < i /\ ~RatioGreater(keys[i], keys[j])})

\* the key of every element, computed once as list.sort does
SortKeys(results, query) ==
    [i \in 1..Len(results) |-> relevance_score(results[i], query)]

SortByRelevance(results, query) ==
    LET keys == SortKeys(results, query)
        places == [i \in 1..Len(results) |-> SortedPlace(keys, i)]
    IN [k \in 1..Len(results) |->
           results[CHOOSE i \in 1..Len(results) : places[i] = k]]

\* results.sort(...) inside the try of search_scenes_by_name: the key function
\* reads the global `name`; when it is undefined the NameError is caught and the
\* list is returned as fetched
sorted_results(results, global_name) ==
    IF results = <<>> THEN results
    ELSE IF global_name = NameUndefined THEN results
    ELSE SortByRelevance(results, global_name)

----------------------------------------------------------------------------
(* Frames, results and history *)

NoOutput == [kind |-> "none", val |-> Null]

Value(v) == [kind |-> "value", val |-> v]

\* an exception leaving the function
Raised == [kind |-> "raise", val |-> Null]

\* scrape.out is NoOutput while the call is in progress; hit: served from the cache
IdleScrape ==
    [url |-> Null, caller |-> "none", page |-> UnknownPage, hit |-> FALSE, out |-> NoOutput]

\* search.results is the list of _search so far, search.returned what
\* search_scenes_by_name returned, search.fetched the pages it fetched
IdleSearch ==
    [arg |-> Null, query |-> Null, caller |-> "none", page |-> 0, results |-> <<>>,
     fetched |-> 0, returned |-> <<>>]

\* history entries
ScrapeCalled(by, url, n) == [ev |-> "scrape", by |-> by, url |-> url, arg |-> Null, n |-> n]

SearchCalled(by, arg) == [ev |-> "search", by |-> by, url |-> Null, arg |-> arg, n |-> 0]

PageFetched(by, url) == [ev |-> "get_page", by |-> by, url |-> url, arg |-> Null, n |-> 0]

ListingFetched(by, query, n) ==
    [ev |-> "get_search", by |-> by, url |-> Null, arg |-> query, n |-> n]

\* The answers the environment may give to a fetch
PageAnswers(url) ==
    IF site_pages[url].status = "unknown" THEN PageChoicesFor(operation)
    ELSE {site_pages[url]}

ListingAnswers(key) ==
    IF key \in DOMAIN site_search THEN {site_search[key]}
    ELSE ListingChoicesFor(operation)

----------------------------------------------------------------------------
(* search_scenes_by_name and scrapeSceneURL: the calls *)

\* search_scenes_by_name(arg) up to its first fetch; `history` is the log so far
SearchCall(arg, caller, history) ==
    /\ log' = Append(history, SearchCalled(caller, arg))
    /\ IF ~Truthy(arg) \/ Strip(arg) = <<>>
       THEN /\ search' = [IdleSearch EXCEPT !.arg = arg, !.caller = caller]
            /\ pc' = "search_ret"
       ELSE /\ search' = [IdleSearch EXCEPT !.arg = arg, !.query = Strip(arg),
                                            !.caller = caller, !.page = 1]
            /\ pc' = "search_page"

\* scrapeSceneURL: the record assembled once extract_image has its value
ScrapeResult(page, url, caller, image) ==
    [url |-> url, caller |-> caller, page |-> page, hit |-> FALSE,
     out |-> Value(SceneRecord(url, page, image))]

\* scrapeSceneURL(url) behind cache_to_disk, called by `caller`: up to its return
\* or, when extract_image reaches its third strategy, up to the search
ScrapeCall(url, caller) ==
    IF url \in DOMAIN cache
    THEN \* cache hit: the stored record, no fetch
         /\ scrape' = [IdleScrape EXCEPT !.url = url, !.caller = caller, !.hit = TRUE,
                                         !.out = Value(cache[url])]
         /\ log' = Append(log, ScrapeCalled(caller, url, idx))
         /\ pc' = "scrape_ret"
         /\ UNCHANGED <<search, site_pages>>
    ELSE IF ~StartsWithHttp(url)
    THEN \* requests refuses the URL before any connection is made
         /\ scrape' = [IdleScrape EXCEPT !.url = url, !.caller = caller, !.out = Raised]
         /\ log' = Append(log, ScrapeCalled(caller, url, idx))
         /\ pc' = "scrape_ret"
         /\ UNCHANGED <<search, site_pages>>
    ELSE \E page \in PageAnswers(url) :
         /\ site_pages' = [site_pages EXCEPT ![url] = page]
         /\ IF page.status = "error"
            THEN \* fetch_html raises
                 /\ scrape' = [IdleScrape EXCEPT !.url = url, !.caller = caller,
                                                 !.out = Raised]
                 /\ log' = log \o <<ScrapeCalled(caller, url, idx), PageFetched(caller, url)>>
                 /\ pc' = "scrape_ret"
                 /\ UNCHANGED search
            ELSE IF Truthy(ImageBeforeSearch(page))
            THEN /\ scrape' = ScrapeResult(page, url, caller, ImageBeforeSearch(page))
                 /\ log' = log \o <<ScrapeCalled(caller, url, idx), PageFetched(caller, url)>>
                 /\ pc' = "scrape_ret"
                 /\ UNCHANGED search
            ELSE IF Truthy(extract_title(page))
            THEN /\ scrape' = [IdleScrape EXCEPT !.url = url, !.caller = caller,
                                                 !.page = page]
                 /\ SearchCall(extract_title(page), "image",
                               log \o <<ScrapeCalled(caller, url, idx),
                                        PageFetched(caller, url)>>)
            ELSE /\ scrape' = ScrapeResult(page, url, caller, ImageFromScript(page))
                 /\ log' = log \o <<ScrapeCalled(caller, url, idx), PageFetched(caller, url)>>
                 /\ pc' = "scrape_ret"
                 /\ UNCHANGED search

\* cache_to_disk: a record returned by the function is stored under its argument
CacheStore(c, url, ret) == (url :> ret) @@ c

\* the store after the return of the call in `scrape`
CacheAfterReturn ==
    IF scrape.out.kind = "value" /\ ~scrape.hit
    THEN CacheStore(cache, scrape.url, scrape.out.val)
    ELSE cache

----------------------------------------------------------------------------
(* _resolve_scene_fragment *)

\* a variant of candidate_urls: fragment.url first, then the other entries
candidate_urls_main_first(fragment) ==
    LET from_urls == IF fragment.urls # NoList THEN fragment.urls ELSE <<>>
        others == SelectSeq(from_urls, LAMBDA u : u # fragment.url)
    IN IF Truthy(fragment.url) THEN <<fragment.url>> \o others ELSE from_urls

\* the candidate list built from fragment.urls and fragment.url
candidate_urls(fragment) ==
    LET from_urls == IF fragment.urls # NoList THEN fragment.urls ELSE <<>>
    IN IF Truthy(fragment.url) /\ ~(\E i \in 1..Len(from_urls) : from_urls[i] = fragment.url)
       THEN Append(from_urls, fragment.url)
       ELSE from_urls

\* the test of the candidate loop: TRUE when scrapeSceneURL is called for url
is_tried(url) == Truthy(url) /\ StartsWithHttp(url) /\ ContainsMegasite(url)

\* a variant of search_title: the file name first, fragment.title second
search_title_file_first(fragment) ==
    IF fragment.file_name # Null /\ Truthy(extract_title_from_filename(fragment.file_name))
    THEN extract_title_from_filename(fragment.file_name)
    ELSE fragment.title

\* the title searched for when no candidate gave a record
search_title(fragment) ==
    IF Truthy(fragment.title) THEN fragment.title
    ELSE IF fragment.file_name # Null THEN extract_title_from_filename(fragment.file_name)
    ELSE fragment.title

\* the search result whose page is scraped
best_match(results, wanted, prefer) ==
    LET exact == {i \in 1..Len(results) : Lower(results[i].title) = Lower(wanted)}
    IN IF prefer /\ exact # {}
       THEN results[CHOOSE i \in exact : \A j \in exact : i <= j]
       ELSE results[1]

\* enrich_scene_fragment passes prefer_exact_match=True, query_scene_fragment False
prefer_exact_match == operation = "enrichScene"

\* a variant of unresolved: the fragment with the search title filled in
unresolved_titled(fragment) == [fragment EXCEPT !.title = search_title(fragment)]

\* `return scene_fragment`: the fragment as it came
unresolved(fragment) == fragment

----------------------------------------------------------------------------
(* performer-image-scraper.py: the process before main() *)

\* findImage answered with null
NoImage == [found |-> FALSE, path |-> Null, performers |-> <<>>]

\* pc: position in main(); image_data: the result of get_image_performers;
\* calls: the GraphQL documents sent; errors: the number of log.error calls;
\* stdout: the documents printed; exit: the status once the process has ended
IdleTool ==
    [pc |-> "idle", image_data |-> NoImage, calls |-> <<>>, errors |-> 0,
     stdout |-> <<>>, exit |-> "running"]

----------------------------------------------------------------------------
(* Actions *)

Operations == {"scrapeSceneURL", "scrapeGalleryURL", "searchScenes", "queryScene", "enrichScene"}

InputsOf(op) ==
    IF op \in {"scrapeSceneURL", "scrapeGalleryURL"} THEN UrlInputs
    ELSE IF op = "searchScenes" THEN NameInputs
    ELSE Fragments

Init ==
    /\ operation \in Operations
    /\ input_data \in InputsOf(operation)
    /\ pc = "start"
    /\ name = NameUndefined
    /\ urls_to_try = <<>>
    /\ idx = 0
    /\ title = Null
    /\ search_results = <<>>
    /\ scrape = IdleScrape
    /\ search = IdleSearch
    /\ output = NoOutput
    /\ cache = <<>>
    /\ log = <<>>
    /\ run = 1
    /\ first_output = NoOutput
    /\ site_pages = [u \in UrlUniverse |-> UnknownPage]
    /\ site_search = <<>>
    /\ tool = IdleTool

\* operation == "scrapeSceneURL" / "scrapeGalleryURL": scrapeSceneURL(url) is called
StartScrape ==
    /\ pc = "start"
    /\ operation \in {"scrapeSceneURL", "scrapeGalleryURL"}
    /\ ScrapeCall(input_data.url, "operation")
    /\ UNCHANGED <<tool, operation, input_data, name, urls_to_try, idx, title, search_results,
                   output, cache, run, first_output, site_search>>

\* the scrape returns to the operation: printed, or the exception ends the process;
\* scrapeGalleryURL replaces director by photographer
ScrapeReturnsToOperation ==
    /\ pc = "scrape_ret"
    /\ scrape.caller = "operation"
    /\ cache' = CacheAfterReturn
    /\ output' = IF operation = "scrapeGalleryURL" /\ scrape.out.kind = "value"
                 THEN Value(GalleryRecord(scrape.out.val))
                 ELSE scrape.out
    /\ pc' = "done"
    /\ UNCHANGED <<tool, operation, input_data, name, urls_to_try, idx, title, search_results,
                   scrape, search, log, run, first_output, site_pages, site_search>>

\* operation == "searchScenes": the global `name` is assigned, then the search called
StartSearch ==
    /\ pc = "start"
    /\ operation = "searchScenes"
    /\ name' = input_data.name
    /\ SearchCall(input_data.name, "operation", log)
    /\ UNCHANGED <<tool, operation, input_data, urls_to_try, idx, title, search_results, scrape,
                   output, cache, run, first_output, site_pages, site_search>>

\* _search: one turn of the page loop, then (when the loop ends) the sort and the
\* return of search_scenes_by_name
FetchSearchPage ==
    /\ pc = "search_page"
    /\ \E listing \in ListingAnswers(<<search.query, search.page>>) :
         LET found == IF listing.status = "ok" THEN page_results(listing) ELSE <<>>
             exact == listing.status = "ok" /\ has_exact_match(listing, search.query)
         IN /\ site_search' = (<<search.query, search.page>> :> listing) @@ site_search
            /\ log' = Append(log, ListingFetched(search.caller, search.query, search.page))
            /\ IF exact \/ found = <<>> \/ search.page >= max_pages
               THEN /\ search' = [search EXCEPT
                                     !.results = @ \o found,
                                     !.fetched = search.page,
                                     !.returned = sorted_results(search.results \o found, name)]
                    /\ pc' = "search_ret"
               ELSE /\ search' = [search EXCEPT !.results = @ \o found, !.page = @ + 1]
                    /\ pc' = "search_page"
    /\ UNCHANGED <<tool, operation, input_data, name, urls_to_try, idx, title, search_results,
                   scrape, output, cache, run, first_output, site_pages>>

\* the search returns to the searchScenes operation: the list is printed
SearchReturnsToOperation ==
    /\ pc = "search_ret"
    /\ search.caller = "operation"
    /\ output' = Value(search.returned)
    /\ pc' = "done"
    /\ UNCHANGED <<tool, operation, input_data, name, urls_to_try, idx, title, search_results,
                   scrape, search, cache, log, run, first_output, site_pages, site_search>>

\* the search returns to extract_image: strategies 3 and 4, then the rest of
\* scrapeSceneURL
SearchReturnsToImage ==
    /\ pc = "search_ret"
    /\ search.caller = "image"
    /\ scrape' = ScrapeResult(scrape.page, scrape.url, scrape.caller,
                              ImageAfterSearch(scrape.page, search.returned))
    /\ pc' = "scrape_ret"
    /\ UNCHANGED <<tool, operation, input_data, name, urls_to_try, idx, title, search_results,
                   search, output, cache, log, run, first_output, site_pages, site_search>>

\* operation == "queryScene" / "enrichScene": _resolve_scene_fragment up to its loop
StartResolve ==
    /\ pc = "start"
    /\ operation \in {"queryScene", "enrichScene"}
    /\ urls_to_try' = candidate_urls(input_data)
    /\ idx' = 1
    /\ pc' = "next_url"
    /\ UNCHANGED <<tool, operation, input_data, name, title, search_results, scrape, search,
                   output, cache, log, run, first_output, site_pages, site_search>>

\* the candidate loop: a URL that fails the test is passed over
SkipUrl ==
    /\ pc = "next_url"
    /\ idx <= Len(urls_to_try)
    /\ ~is_tried(urls_to_try[idx])
    /\ idx' = idx + 1
    /\ UNCHANGED <<tool, operation, input_data, pc, name, urls_to_try, title, search_results,
                   scrape, search, output, cache, log, run, first_output, site_pages,
                   site_search>>

\* the candidate loop: scrapeSceneURL(url) inside try/except
TryUrl ==
    /\ pc = "next_url"
    /\ idx <= Len(urls_to_try)
    /\ is_tried(urls_to_try[idx])
    /\ ScrapeCall(urls_to_try[idx], "candidate")
    /\ UNCHANGED <<tool, operation, input_data, name, urls_to_try, idx, title, search_results,
                   output, cache, run, first_output, site_search>>

\* the candidate loop after scrapeSceneURL: a record with a title is returned, an
\* exception or a record without title goes on to the next URL
ScrapeReturnsToCandidateLoop ==
    /\ pc = "scrape_ret"
    /\ scrape.caller = "candidate"
    /\ cache' = CacheAfterReturn
    /\ IF scrape.out.kind = "value" /\ Truthy(scrape.out.val.title)
       THEN /\ output' = scrape.out
            /\ pc' = "done"
            /\ idx' = idx
       ELSE /\ idx' = idx + 1
            /\ pc' = "next_url"
            /\ output' = output
    /\ UNCHANGED <<tool, operation, input_data, name, urls_to_try, title, search_results,
                   scrape, search, log, run, first_output, site_pages, site_search>>

\* after the loop: the search title, then the search or the fragment as it came
SearchByTitle ==
    /\ pc = "next_url"
    /\ idx > Len(urls_to_try)
    /\ title' = search_title(input_data)
    /\ IF Truthy(search_title(input_data))
       THEN /\ SearchCall(search_title(input_data), "resolver", log)
            /\ output' = output
       ELSE /\ output' = Value(unresolved(input_data))
            /\ pc' = "done"
            /\ UNCHANGED <<search, log>>
    /\ UNCHANGED <<tool, operation, input_data, name, urls_to_try, idx, search_results, scrape,
                   cache, run, first_output, site_pages, site_search>>

\* the search returns to _resolve_scene_fragment: `if search_results:`
SearchReturnsToResolver ==
    /\ pc = "search_ret"
    /\ search.caller = "resolver"
    /\ search_results' = search.returned
    /\ IF search.returned # <<>>
       THEN /\ pc' = "best_match"
            /\ output' = output
       ELSE /\ output' = Value(unresolved(input_data))
            /\ pc' = "done"
    /\ UNCHANGED <<tool, operation, input_data, name, urls_to_try, idx, title, scrape, search,
                   cache, log, run, first_output, site_pages, site_search>>

\* `return scrapeSceneURL(best_match["url"])`: the call
ScrapeBestMatch ==
    /\ pc = "best_match"
    /\ ScrapeCall(best_match(search_results, title, prefer_exact_match).url, "best_match")
    /\ UNCHANGED <<tool, operation, input_data, name, urls_to_try, idx, title, search_results,
                   output, cache, run, first_output, site_search>>

\* a variant of BestMatchReturns: the call guarded, an exception answered by the
\* fragment as it came
BestMatchReturnsGuarded ==
    /\ pc = "scrape_ret"
    /\ scrape.caller = "best_match"
    /\ cache' = CacheAfterReturn
    /\ output' = IF scrape.out.kind = "raise" THEN Value(unresolved(input_data))
                 ELSE scrape.out
    /\ pc' = "done"
    /\ UNCHANGED <<tool, operation, input_data, name, urls_to_try, idx, title, search_results,
                   scrape, search, log, run, first_output, site_pages, site_search>>

\* `return scrapeSceneURL(best_match["url"])`: outside any try, the record or the
\* exception leaves _resolve_scene_fragment
BestMatchReturns ==
    /\ pc = "scrape_ret"
    /\ scrape.caller = "best_match"
    /\ cache' = CacheAfterReturn
    /\ output' = scrape.out
    /\ pc' = "done"
    /\ UNCHANGED <<tool, operation, input_data, name, urls_to_try, idx, title, search_results,
                   scrape, search, log, run, first_output, site_pages, site_search>>

Next ==
    \/ StartScrape
    \/ ScrapeReturnsToOperation
    \/ StartSearch
    \/ FetchSearchPage
    \/ SearchReturnsToOperation
    \/ SearchReturnsToImage
    \/ StartResolve
    \/ SkipUrl
    \/ TryUrl
    \/ ScrapeReturnsToCandidateLoop
    \/ SearchByTitle
    \/ SearchReturnsToResolver
    \/ ScrapeBestMatch
    \/ BestMatchReturns

Spec == Init /\ [][Next]_vars

----------------------------------------------------------------------------
(* The same resolution invoked again: a new process, the same cache on disk *)

\* the fragments resolved twice: those whose candidates come from `url` alone
TwiceFragments == {f \in Fragments : f.urls = NoList}

InitTwice ==
    /\ Init
    /\ operation \in {"queryScene", "enrichScene"}
    /\ input_data \in TwiceFragments

\* The program run again on the same input: module state is fresh, the
\* cache_to_disk store and the site are as the first invocation left them
RunAgain ==
    /\ pc = "done"
    /\ run = 1
    /\ run' = 2
    /\ first_output' = output
    /\ pc' = "start"
    /\ name' = NameUndefined
    /\ urls_to_try' = <<>>
    /\ idx' = 0
    /\ title' = Null
    /\ search_results' = <<>>
    /\ scrape' = IdleScrape
    /\ search' = IdleSearch
    /\ output' = NoOutput
    /\ log' = <<>>
    /\ UNCHANGED <<tool, operation, input_data, cache, site_pages, site_search>>

NextTwice ==
    \/ FetchSearchPage
    \/ SearchReturnsToImage
    \/ StartResolve
    \/ SkipUrl
    \/ TryUrl
    \/ ScrapeReturnsToCandidateLoop
    \/ SearchByTitle
    \/ SearchReturnsToResolver
    \/ ScrapeBestMatch
    \/ BestMatchReturns
    \/ RunAgain

SpecTwice == InitTwice /\ [][NextTwice]_vars

----------------------------------------------------------------------------
(* One invocation that runs to its end *)

\* the operations that scrape: the scrape operations on every URL, the resolver
\* operations on the fragments of TwiceFragments
InitLive ==
    /\ Init
    /\ operation \in {"scrapeSceneURL", "scrapeGalleryURL", "queryScene", "enrichScene"}
    /\ operation \in {"queryScene", "enrichScene"} => input_data \in TwiceFragments

NextLive ==
    \/ StartScrape
    \/ ScrapeReturnsToOperation
    \/ FetchSearchPage
    \/ SearchReturnsToImage
    \/ StartResolve
    \/ SkipUrl
    \/ TryUrl
    \/ ScrapeReturnsToCandidateLoop
    \/ SearchByTitle
    \/ SearchReturnsToResolver
    \/ ScrapeBestMatch
    \/ BestMatchReturns

\* The script is a single thread of control: whenever a step is possible, a step
\* is taken
SpecLive == InitLive /\ [][NextLive]_vars /\ WF_vars(NextLive)

----------------------------------------------------------------------------
(* performer-image-scraper.py *)

\* longest list of performers attached to an image
MaxPerformers == 2

\* the fragments read from stdin: without id, with an empty id, with an id
ToolFragments == [id : {Null, <<>>, <<"7">>, <<"8">>}]

Performer(id, nm) == [id |-> id, name |-> nm]

\* the third one has no "name" key
PerformerChoices ==
    {Performer(<<"1">>, <<"a">>), Performer(<<"2">>, <<"b">>), Performer(<<"3">>, Null)}

ImagePaths == {Null, <<>>, <<"http://", "stash", "/image/7">>}

\* The answers of Stash to the FindImage query
ImageChoices ==
    {NoImage} \cup
    [found : {TRUE}, path : ImagePaths, performers : SeqsUpTo(PerformerChoices, MaxPerformers)]

FindImageCall(image_id) == [op |-> "findImage", id |-> image_id, image |-> Null]

PerformerUpdateCall(performer_id, image_url) ==
    [op |-> "performerUpdate", id |-> performer_id, image |-> image_url]

\* json.dumps({})
EmptyDocument == "{}"

\* log.error(...) then announce_result_to_stash(None): `{}` printed, sys.exit(0)
ErrorAndAnnounce(t) ==
    [t EXCEPT !.errors = @ + 1, !.stdout = Append(@, EmptyDocument),
              !.exit = "status 0", !.pc = "exited"]

\* announce_result_to_stash({}): `{}` printed, sys.exit(0)
announce_result_to_stash(t) ==
    [t EXCEPT !.stdout = Append(@, EmptyDocument), !.exit = "status 0", !.pc = "exited"]

InitTool ==
    /\ operation = "performerImage"
    /\ input_data \in ToolFragments
    /\ pc = "start"
    /\ name = NameUndefined
    /\ urls_to_try = <<>>
    /\ idx = 0
    /\ title = Null
    /\ search_results = <<>>
    /\ scrape = IdleScrape
    /\ search = IdleSearch
    /\ output = NoOutput
    /\ cache = <<>>
    /\ log = <<>>
    /\ run = 1
    /\ first_output = NoOutput
    /\ site_pages = [u \in UrlUniverse |-> UnknownPage]
    /\ site_search = <<>>
    /\ tool = [IdleTool EXCEPT !.pc = "start"]

\* main(): the fragment is read and its id looked at
ToolReadFragment ==
    /\ tool.pc = "start"
    /\ tool' = IF Truthy(input_data.id) /\ input_data.id # <<>>
               THEN [tool EXCEPT !.pc = "find_image"]
               ELSE ErrorAndAnnounce(tool)
    /\ UNCHANGED <<operation, input_data, pc, name, urls_to_try, idx, title,
                   search_results, scrape, search, output, cache, log, run, first_output,
                   site_pages, site_search>>

\* get_image_performers(str(image_id)): the query and its answer
ToolFindImage ==
    /\ tool.pc = "find_image"
    /\ \E answer \in ImageChoices :
         tool' = [tool EXCEPT !.calls = Append(@, FindImageCall(input_data.id)),
                              !.image_data = answer,
                              !.pc = "validate"]
    /\ UNCHANGED <<operation, input_data, pc, name, urls_to_try, idx, title,
                   search_results, scrape, search, output, cache, log, run, first_output,
                   site_pages, site_search>>

\* a variant of ToolValidate: with several performers the first one is taken
ToolValidateFirstPerformer ==
    /\ tool.pc = "validate"
    /\ tool' = IF ~tool.image_data.found THEN ErrorAndAnnounce(tool)
               ELSE IF ~Truthy(tool.image_data.path) \/ tool.image_data.path = <<>>
               THEN ErrorAndAnnounce(tool)
               ELSE IF Len(tool.image_data.performers) = 0 THEN ErrorAndAnnounce(tool)
               ELSE [tool EXCEPT !.pc = "update"]
    /\ UNCHANGED <<operation, input_data, pc, name, urls_to_try, idx, title,
                   search_results, scrape, search, output, cache, log, run, first_output,
                   site_pages, site_search>>

\* main(): the image, its path and the number of its performers are checked
ToolValidate ==
    /\ tool.pc = "validate"
    /\ tool' = IF ~tool.image_data.found THEN ErrorAndAnnounce(tool)
               ELSE IF ~Truthy(tool.image_data.path) \/ tool.image_data.path = <<>>
               THEN ErrorAndAnnounce(tool)
               ELSE IF Len(tool.image_data.performers) = 0 THEN ErrorAndAnnounce(tool)
               ELSE IF Len(tool.image_data.performers) > 1 THEN ErrorAndAnnounce(tool)
               ELSE [tool EXCEPT !.pc = "update"]
    /\ UNCHANGED <<operation, input_data, pc, name, urls_to_try, idx, title,
                   search_results, scrape, search, output, cache, log, run, first_output,
                   site_pages, site_search>>

\* update_performer_image(performer_id, image_url): the mutation and its answer,
\* then the result announced
ToolUpdate ==
    /\ tool.pc = "update"
    /\ \E updated \in BOOLEAN :
         LET sent == [tool EXCEPT !.calls =
                         Append(@, PerformerUpdateCall(tool.image_data.performers[1].id,
                                                       tool.image_data.path))]
         IN tool' = IF updated THEN announce_result_to_stash(sent)
                    ELSE ErrorAndAnnounce(sent)
    /\ UNCHANGED <<operation, input_data, pc, name, urls_to_try, idx, title,
                   search_results, scrape, search, output, cache, log, run, first_output,
                   site_pages, site_search>>

NextTool ==
    \/ ToolReadFragment
    \/ ToolFindImage
    \/ ToolValidate
    \/ ToolUpdate

SpecTool == InitTool /\ [][NextTool]_vars

----------------------------------------------------------------------------
(* Properties: the terms they are stated in *)

RequiredHost == "megasite.meanworld.com"

\* the host of a URL: the part after the scheme
Host(url) == IF Len(url) >= 2 THEN url[2] ELSE ""

IsResolve == operation \in {"queryScene", "enrichScene"}

CandidateScrapes == {i \in DOMAIN log : log[i].ev = "scrape" /\ log[i].by = "candidate"}

BestMatchScrapes == {i \in DOMAIN log : log[i].ev = "scrape" /\ log[i].by = "best_match"}

ResolverSearches == {i \in DOMAIN log : log[i].ev = "search" /\ log[i].by = "resolver"}

Fetches == {i \in DOMAIN log : log[i].ev \in {"get_page", "get_search"}}

\* the candidate list as stated: fragment.urls in given order, then fragment.url
\* if it is not already there
ExpectedCandidates(f) ==
    LET listed == IF f.urls = NoList THEN <<>> ELSE f.urls
    IN IF f.url = Null \/ (\E i \in 1..Len(listed) : listed[i] = f.url)
       THEN listed
       ELSE listed \o <<f.url>>

\* the search title as stated: fragment.title if present, else the title derived
\* from fragment.file_name
ExpectedSearchTitle(f) ==
    IF Truthy(f.title) THEN f.title
    ELSE IF f.file_name # Null THEN extract_title_from_filename(f.file_name)
    ELSE Null

\* the site answers url with a page that has a title: its full-page scrape
\* succeeds with a title
SucceedsWithTitle(url) ==
    site_pages[url].status = "ok" /\ Truthy(extract_title(site_pages[url]))

\* a full-page scrape, or the search made for its image, is under way
ScrapeUnderWay == pc \in {"scrape_ret", "search_page", "search_ret"}

\* the site is known to answer url with an error, or with a page without title
KnownToFail(url) ==
    \/ site_pages[url].status = "error"
    \/ site_pages[url].status = "ok" /\ ~Truthy(extract_title(site_pages[url]))

\* the loop has passed every candidate
CandidatesExhausted ==
    /\ IsResolve
    /\ pc \notin {"start", "next_url"}
    /\ idx > Len(ExpectedCandidates(input_data))

----------------------------------------------------------------------------
(* C1 *)

\* C1: the full-page scrapes of the candidate loop follow the candidate list
\* (fragment.urls in given order, then fragment.url if not already listed): each
\* scrape is of the candidate at its place, places only increase, no candidate
\* that passes the loop's test is left out on the way, and all of them come before
\* any search of the resolver. The first candidate whose scrape gives a record
\* with a title ends the resolution: that record is the output, no later scrape
\* or fetch of another URL follows and the resolver issues no search.
C1_CandidatesInOrderUntilFirstSuccess ==
    IsResolve =>
        \A i \in CandidateScrapes :
            /\ log[i].n \in 1..Len(ExpectedCandidates(input_data))
            /\ log[i].url = ExpectedCandidates(input_data)[log[i].n]
            /\ \A j \in CandidateScrapes : j < i => log[j].n < log[i].n
            /\ \A m \in 1..(log[i].n - 1) :
                   is_tried(ExpectedCandidates(input_data)[m])
                       => \E j \in CandidateScrapes : j < i /\ log[j].n = m
            /\ \A j \in 1..(i - 1) : log[j].by \in {"candidate", "image"}
            /\ SucceedsWithTitle(log[i].url) =>
                   /\ ~ScrapeUnderWay =>
                          /\ pc = "done"
                          /\ output.kind = "value"
                          /\ output.val.url = log[i].url
                          /\ output = scrape.out
                   /\ \A j \in (i + 1)..Len(log) :
                          /\ log[j].ev # "scrape"
                          /\ log[j].by \in {"candidate", "image"}
                          /\ log[j].ev = "get_page" => log[j].url = log[i].url

\* C1 witness: three candidates, the first scraped without success, the second
\* scraped with success and returned, the third never scraped
C1_Witness ==
    /\ IsResolve
    /\ pc = "done"
    /\ Len(ExpectedCandidates(input_data)) = 3
    /\ is_tried(ExpectedCandidates(input_data)[3])
    /\ \E i, j \in CandidateScrapes :
          /\ log[i].n = 1
          /\ log[j].n = 2
          /\ ~SucceedsWithTitle(log[i].url)
          /\ SucceedsWithTitle(log[j].url)
          /\ output.kind = "value"
          /\ output.val.url = log[j].url
          /\ Truthy(output.val.title)
    /\ \A i \in CandidateScrapes : log[i].n # 3

----------------------------------------------------------------------------
(* C2 *)

\* C2: a candidate URL whose host is not megasite.meanworld.com is skipped: the
\* candidate loop calls no scrape and issues no fetch for it, whatever its path
\* or query string contains.
C2_OtherHostNeverFetched ==
    \A i \in DOMAIN log :
        log[i].by = "candidate" /\ log[i].ev \in {"scrape", "get_page"}
            => Host(log[i].url) = RequiredHost

----------------------------------------------------------------------------
(* C3 *)

\* C3: whenever the resolver returns something other than the fragment it was
\* given, the returned record has a non-empty title.
C3_ResolvedRecordHasTitle ==
    (IsResolve /\ pc = "done" /\ output.kind = "value" /\ output.val # input_data)
        => Truthy(output.val.title)

----------------------------------------------------------------------------
(* C4 *)

\* C4: when every candidate is skipped, raises or gives a record without title
\* (also when there is no candidate at all), the scrape error does not leave the
\* resolver: the loop is passed, and the search step is entered with
\* fragment.title if present, else with the title derived from
\* fragment.file_name; exactly one search is called, with that title. An
\* exception leaves the resolver only from the scrape of a search result.
C4_FailedCandidatesLeadToTitleSearch ==
    IsResolve =>
        /\ output.kind = "raise" => BestMatchScrapes # {}
        /\ ((\A m \in 1..Len(ExpectedCandidates(input_data)) :
                \/ ~is_tried(ExpectedCandidates(input_data)[m])
                \/ KnownToFail(ExpectedCandidates(input_data)[m])) /\ pc = "done")
              => CandidatesExhausted
        /\ CandidatesExhausted =>
              IF Truthy(ExpectedSearchTitle(input_data))
              THEN /\ Cardinality(ResolverSearches) = 1
                   /\ \A i \in ResolverSearches :
                          /\ log[i].arg = ExpectedSearchTitle(input_data)
                          /\ \A j \in CandidateScrapes : j < i
              ELSE ResolverSearches = {}

\* C4 witness: a candidate's scrape raised on an HTTP error, the fragment has no
\* title, and the title derived from the file name was searched
C4_Witness ==
    /\ CandidatesExhausted
    /\ ~Truthy(input_data.title)
    /\ \E i \in CandidateScrapes : site_pages[log[i].url].status = "error"
    /\ \E i \in ResolverSearches : log[i].arg = <<"b">>

----------------------------------------------------------------------------
(* C5 *)

\* the choice as stated: the first result whose title equals the search title
\* under case-insensitive, whitespace-trimmed equality, when asked for and there
\* is one; else the first result
ClaimedChoice(results, wanted, prefer) ==
    LET exact == {i \in 1..Len(results) :
                      Lower(Strip(results[i].title)) = Lower(Strip(wanted))}
    IN IF prefer /\ exact # {}
       THEN results[CHOOSE i \in exact : \A j \in exact : i <= j]
       ELSE results[1]

\* C5: in the search step with non-empty results, the result whose page is
\* scraped is, under enrichScene (prefer_exact_match true), the first result
\* whose title equals the search title case-insensitively and trimmed, if there
\* is one, and otherwise (and always under queryScene) the first result.
C5_ScrapesClaimedChoice ==
    IsResolve =>
        \A i \in BestMatchScrapes :
            log[i].url = ClaimedChoice(search_results, ExpectedSearchTitle(input_data),
                                       operation = "enrichScene").url

----------------------------------------------------------------------------
(* C6 *)

\* the latest call of search_scenes_by_name has returned
SearchCompleted == search.caller # "none" /\ pc # "search_page"

\* C6: for every caller, the list search_scenes_by_name returns is the fetched
\* results in descending order of similarity between the lowercased query of
\* the call and the lowercased title, results of equal score in fetch order.
C6_ReturnedInRankOrder ==
    SearchCompleted => search.returned = SortByRelevance(search.results, search.arg)

----------------------------------------------------------------------------
(* C7 *)

\* pages fetched so far by the latest search
PagesFetched == IF pc = "search_page" THEN search.page - 1 ELSE search.fetched

\* the place in the history of the latest call of search_scenes_by_name
LatestSearchCall ==
    CHOOSE k \in DOMAIN log :
        log[k].ev = "search" /\ \A j \in (k + 1)..Len(log) : log[j].ev # "search"

\* the results of pages 1..n of the site's answers to query q, in fetch order
RECURSIVE ResultsOfPages(_, _)
ResultsOfPages(q, n) ==
    IF n = 0 THEN <<>>
    ELSE ResultsOfPages(q, n - 1) \o page_results(site_search[<<q, n>>])

\* a page that ends the paging as stated: it has a result whose decoded title
\* equals the query case-insensitively, or it yields no result
StopsPaging(listing, q) ==
    \/ page_results(listing) = <<>>
    \/ \E i \in 1..Len(page_results(listing)) :
           Lower(page_results(listing)[i].title) = Lower(q)

\* C7: the search fetches pages 1, 2, ... of its query in order, never more than
\* max_pages; no page before the last fetched one has an exact match (decoded
\* title equal to the query, case-insensitively) or zero results, and once the
\* search has returned, the last fetched page has one of the two or is page
\* max_pages; the accumulated list is the concatenation of the per-page results
\* in fetch order.
C7_PagingStopsAtExactOrEmpty ==
    search.caller # "none" =>
        /\ PagesFetched <= max_pages
        /\ \A m \in 1..PagesFetched :
               /\ <<search.query, m>> \in DOMAIN site_search
               /\ log[LatestSearchCall + m]
                      = ListingFetched(search.caller, search.query, m)
               /\ m < PagesFetched => ~StopsPaging(site_search[<<search.query, m>>],
                                                   search.query)
        /\ LatestSearchCall + PagesFetched < Len(log)
               => log[LatestSearchCall + PagesFetched + 1].ev # "get_search"
        /\ search.results = ResultsOfPages(search.query, PagesFetched)
        /\ (SearchCompleted /\ PagesFetched = 0) => (~Truthy(search.arg) \/ Strip(search.arg) = <<>>)
        /\ (SearchCompleted /\ PagesFetched > 0) =>
               \/ PagesFetched = max_pages
               \/ StopsPaging(site_search[<<search.query, PagesFetched>>], search.query)

\* C7 witness: a search that fetched two pages, the first with a result but no
\* exact match, the second with an exact match, and returned the results of both
C7_Witness ==
    /\ SearchCompleted
    /\ search.fetched = 2
    /\ page_results(site_search[<<search.query, 1>>]) # <<>>
    /\ \E i \in 1..Len(page_results(site_search[<<search.query, 2>>])) :
           Lower(page_results(site_search[<<search.query, 2>>])[i].title)
               = Lower(search.query)
    /\ Len(search.results) >= 3

----------------------------------------------------------------------------
(* C8 *)

\* the resolver's search has returned an empty list
ResolverSearchEmpty ==
    /\ search.caller = "resolver"
    /\ SearchCompleted
    /\ search.returned = <<>>

\* C8: when no candidate gave a record and the search title is absent (no
\* fragment.title, none derivable from fragment.file_name) or the search returned
\* an empty list, the resolver returns the fragment it was given, every field
\* as it came and no field added.
C8_FallbackReturnsFragmentUnchanged ==
    (CandidatesExhausted /\ pc = "done"
        /\ (~Truthy(ExpectedSearchTitle(input_data)) \/ ResolverSearchEmpty))
        => (output.kind = "value" /\ output.val = input_data)

\* C8 witness: a fragment without title whose file name gives one, searched, the
\* search empty after a fetch, the fragment returned
C8_Witness ==
    /\ CandidatesExhausted
    /\ pc = "done"
    /\ ~Truthy(input_data.title)
    /\ Truthy(ExpectedSearchTitle(input_data))
    /\ ResolverSearchEmpty
    /\ search.fetched >= 1
    /\ output = Value(input_data)

----------------------------------------------------------------------------
(* C9 *)

----------------------------------------------------------------------------
(* C10 *)

\* C10: the same fragment resolved a second time, the cache warmed by a first
\* resolution that succeeded (through a candidate URL or through the search
\* step): the second output is identical to the first and the second resolution
\* issues no network fetch.
C10_SecondResolutionFromCache ==
    (run = 2 /\ pc = "done" /\ first_output.kind = "value"
        /\ first_output.val # input_data) =>
        /\ output.kind = first_output.kind
        /\ output.kind = "value" => output.val = first_output.val
        /\ Fetches = {}

----------------------------------------------------------------------------
(* C11 *)

UpdateCalls == {i \in DOMAIN tool.calls : tool.calls[i].op = "performerUpdate"}

\* C11: the performerUpdate mutation is sent only for an image that exists, has
\* an image path and has exactly one performer attached (and then for that
\* performer and that path); for an image with zero or with more than one
\* performers, once the tool has ended it has logged an error, sent no
\* mutation, printed exactly one document `{}` and exited with status 0, and
\* until it ends it has printed nothing.
C11_UpdateOnlyForOnePerformer ==
    /\ \A i \in UpdateCalls :
           /\ tool.image_data.found
           /\ Truthy(tool.image_data.path) /\ tool.image_data.path # <<>>
           /\ Len(tool.image_data.performers) = 1
           /\ tool.calls[i] = PerformerUpdateCall(tool.image_data.performers[1].id,
                                                  tool.image_data.path)
    /\ (tool.image_data.found /\ Len(tool.image_data.performers) # 1) =>
           /\ UpdateCalls = {}
           /\ tool.pc \in {"validate", "exited"}
           /\ tool.pc = "validate" => (tool.stdout = <<>> /\ tool.exit = "running")
           /\ tool.pc = "exited" =>
                  /\ tool.errors >= 1
                  /\ tool.stdout = <<EmptyDocument>>
                  /\ tool.exit = "status 0"

\* C11 witness: an image with a path and two performers; the tool has ended
\* with one error logged, `{}` printed, status 0 and no mutation
C11_Witness ==
    /\ tool.pc = "exited"
    /\ tool.image_data.found
    /\ Truthy(tool.image_data.path) /\ tool.image_data.path # <<>>
    /\ Len(tool.image_data.performers) = 2
    /\ tool.errors = 1
    /\ tool.stdout = <<EmptyDocument>>
    /\ tool.exit = "status 0"
    /\ UpdateCalls = {}

----------------------------------------------------------------------------
(* C12 *)

\* an absolute URL: it begins with a scheme
IsAbsoluteUrl(url) == url # <<>> /\ url[1] \in {"http://", "https://"}

\* C12: every image placed in a record by scrapeSceneURL, whichever strategy of
\* extract_image gave it, and every image placed in a search result by
\* extract_search_result_data, is an absolute URL.
C12_ImagesAreAbsolute ==
    /\ (scrape.out.kind = "value" /\ Truthy(scrape.out.val.image))
           => IsAbsoluteUrl(scrape.out.val.image)
    /\ \A i \in 1..Len(search.results) :
           Truthy(search.results[i].image) => IsAbsoluteUrl(search.results[i].image)

----------------------------------------------------------------------------
(* C13 *)

\* the place in the history of the latest call of scrapeSceneURL
LatestScrapeCall ==
    CHOOSE k \in DOMAIN log :
        log[k].ev = "scrape" /\ \A j \in (k + 1)..Len(log) : log[j].ev # "scrape"

\* the searches issued by extract_image during the latest scrape
ImageSearches ==
    {i \in (LatestScrapeCall + 1)..Len(log) : log[i].ev = "search" /\ log[i].by = "image"}

\* strategies 1 and 2 gave nothing and the page has a title: strategy 3 applies
SearchStrategyApplies(page) ==
    /\ ~Truthy(ImageFromOg(page))
    /\ ~Truthy(ImageFromPreview(page))
    /\ Truthy(extract_title(page))

\* the image as stated: the value of the first of the four strategies, in their
\* order, that yields a non-empty value; `results` is what the search returned
FirstStrategyImage(page, results) ==
    IF Truthy(ImageFromOg(page)) THEN ImageFromOg(page)
    ELSE IF Truthy(ImageFromPreview(page)) THEN ImageFromPreview(page)
    ELSE IF Truthy(extract_title(page)) /\ results # <<>> /\ Truthy(results[1].image)
         THEN results[1].image
    ELSE IF Truthy(ImageFromScript(page)) THEN ImageFromScript(page)
    ELSE Null

\* C13: for every page fetched by scrapeSceneURL, extract_image issues a search
\* only when og:image and the preview thumbnail yield nothing and the page has
\* a title, then exactly one, by that title; the image of the record is the
\* value of the first strategy, in the order og:image, preview thumbnail, image
\* of the first search result, script thumbnail, that yields a non-empty value.
C13_FirstStrategyWins ==
    (scrape.caller # "none" /\ scrape.page.status = "ok") =>
        /\ IF SearchStrategyApplies(scrape.page)
           THEN /\ Cardinality(ImageSearches) = 1
                /\ \A i \in ImageSearches : log[i].arg = extract_title(scrape.page)
           ELSE ImageSearches = {}
        /\ scrape.out.kind = "value" =>
               scrape.out.val.image = FirstStrategyImage(scrape.page, search.returned)

\* C13 witness: no og:image, no preview thumbnail, a title, a first search
\* result with an image: the record carries that image, though the page has a
\* script thumbnail
C13_Witness ==
    /\ scrape.out.kind = "value"
    /\ scrape.page.status = "ok"
    /\ SearchStrategyApplies(scrape.page)
    /\ Truthy(ImageFromScript(scrape.page))
    /\ search.caller = "image"
    /\ search.returned # <<>>
    /\ Truthy(search.returned[1].image)
    /\ scrape.out.val.image = search.returned[1].image

----------------------------------------------------------------------------
(* C14 *)

\* the network fetches made by the latest call of scrapeSceneURL: of its page,
\* and of the search pages of extract_image
FetchesOfScrape ==
    {i \in (LatestScrapeCall + 1)..Len(log) :
        \/ log[i].ev = "get_page"
        \/ log[i].ev = "get_search" /\ log[i].by = "image"}

\* one call of scrapeSceneURL searches at most once and fetches at most
\* 1 + MAX_SEARCH_PAGES times; while a search is under way nothing but its page
\* fetches happens: no scrape is called from it
OneLevelDeep ==
    /\ scrape.caller # "none" =>
           /\ Cardinality(ImageSearches) <= 1
           /\ Cardinality(FetchesOfScrape) <= 1 + MAX_SEARCH_PAGES
    /\ pc = "search_page" =>
           \A j \in (LatestSearchCall + 1)..Len(log) : log[j].ev = "get_search"

\* C14: the fallback of extract_image into the search is one level deep: a call
\* of scrapeSceneURL calls search_scenes_by_name at most once, a search calls
\* neither scrapeSceneURL nor extract_image, a full-page scrape makes at most
\* 1 + MAX_SEARCH_PAGES fetches, and every scrape and every resolution comes to
\* its end.
C14_OneLevelDeepAndTerminates == []OneLevelDeep /\ <>(pc = "done")

\* C14 witness: a scrape that has ended after 1 + MAX_SEARCH_PAGES fetches, its
\* page and all the pages of one image search
C14_Witness ==
    /\ pc = "done"
    /\ scrape.out.kind = "value"
    /\ Cardinality(ImageSearches) = 1
    /\ Cardinality(FetchesOfScrape) = 1 + MAX_SEARCH_PAGES

====
